---- MODULE Spec2Model ----
(***************************************************************************)
(* Model of the question-answering pipeline of Insight-Hub                 *)
(* (src/backend/rag_system.py, src/backend/vector_store.py).               *)
(*                                                                         *)
(* One request runs RAGSystem.ask_question: classify the question, embed   *)
(* it, query the vector store, filter by distance, assemble deduplicated   *)
(* sources, call the LLM, reconcile the citation markers of its answer.    *)
(* The embedding service, the vector store's ranking and the LLM are       *)
(* external: their outcomes are nondeterministic inputs.                   *)
(*                                                                         *)
(* Text is abstract: a chunk text is [id, len] (len = number of            *)
(* characters); an LLM answer is a sequence of tokens, each plain text or  *)
(* a bracketed marker with its word, its whitespace and its digit string;  *)
(* distances are in hundredths (0.8 is 80).                                *)
(*                                                                         *)
(* The classifier, the prompt builder, the chunker of                      *)
(* src/backend/pdf_parser.py, the calls of VectorStore and the handlers of *)
(* src/main.py have specifications of their own, further down.             *)
(***************************************************************************)
EXTENDS Integers, Sequences, FiniteSets, TLC

VARIABLES
    collection,      \* VectorStore.collection: the stored chunks
    pc,              \* position of the request
    question,        \* ask_question parameter
    n_results,       \* ask_question parameter after defaulting
    question_type,   \* classify_question_type(question)[0]
    results,         \* retrieve_relevant_chunks: what vector_store.query returned
    context_chunks,  \* relevant_chunks / generate_answer's context_chunks
    citations,       \* generate_answer local: citations
    prompt,          \* generate_answer local: prompt sent to the LLM
    response,        \* response.choices[0].message.content
    result,          \* the returned {'answer', 'citations'}
    error,           \* the exception that ended the request
    error_message,   \* the message of the provider's failure that the exception carries
    llm_calls,       \* chat.completions.create calls made in this request
    page_text,       \* _split_text_into_chunks parameter text: the text of a page
    chunk_size,      \* _split_text_into_chunks parameter
    packed_chunks,   \* _split_text_into_chunks local chunks: the sentence-packed chunks
    final_chunks,    \* what _split_text_into_chunks returned
    page_chunks,     \* parse_pdf: the texts of the chunks it kept for the page
    next_uuid,       \* the number of the next add_documents call: its ids are new
    requested,       \* actual_n_results of a direct call of VectorStore.query, else 0
    store_writable,  \* the client can still write to the files of its database
    upload_pc,       \* position of the upload_pdf request
    upload_file,     \* upload_pdf: file.filename
    upload_chunks,   \* upload_pdf local: chunks
    upload_response, \* what upload_pdf answered
    status_response, \* what get_status answered last
    clear_response,  \* what clear_documents answered last
    ask_response,    \* what the handler ask_question answered last
    api_key          \* the key get_rag_system finds in the environment, or None

\* the variables of VectorStore next to its collection
storeVars == <<next_uuid, requested, store_writable>>

\* the variables of the handlers of main.py
handlerVars == <<upload_pc, upload_file, upload_chunks, upload_response,
                 status_response, clear_response, ask_response, api_key>>

\* the variables of PDFParser
chunkerVars == <<page_text, chunk_size, packed_chunks, final_chunks, page_chunks>>

\* what RAGSystem.ask_question never reads or writes
outsideAsk == <<chunkerVars, storeVars, handlerVars>>

vars == <<collection, pc, question, n_results, question_type, results,
          context_chunks, citations, prompt, response, result, error, error_message, llm_calls,
          chunkerVars, storeVars, handlerVars>>

----------------------------------------------------------------------------
(* Bounds *)

\* longest result list a request may ask the store for
MaxResults == 3
\* longest LLM answer, in tokens
MaxAnswerLen == 2

----------------------------------------------------------------------------
(* Values *)

\* None, for an optional value v held as <<v>>
None == <<>>

Min(a, b) == IF a < b THEN a ELSE b

Range(s) == {s[i] : i \in DOMAIN s}

\* f"...{n}": decimal digits of a natural number, no leading zero
RECURSIVE IntToDigits(_)
IntToDigits(n) == IF n < 10 THEN <<n>> ELSE Append(IntToDigits(n \div 10), n % 10)

\* int(match): value of a non-empty digit string, leading zeros allowed
RECURSIVE DigitsToInt(_)
DigitsToInt(ds) ==
    IF Len(ds) = 0 THEN 0
    ELSE 10 * DigitsToInt(SubSeq(ds, 1, Len(ds) - 1)) + ds[Len(ds)]

----------------------------------------------------------------------------
(* The vector store (src/backend/vector_store.py) *)

Text(id, len) == [id |-> id, len |-> len]

\* VectorStore.add_documents: what is stored for one chunk
StoredChunk(id, text, pdf_filename, page, chunk_index) ==
    [id |-> id,
     text |-> text,
     metadata |-> [pdf_filename |-> pdf_filename, page |-> page,
                   chunk_index |-> chunk_index]]

\* the ids are those of a first add_documents call for doc.pdf and a second
\* for other.pdf: the number of the call and the position in its chunk list
ChunkA == StoredChunk(<<1, 1>>, Text("A", 120), "doc.pdf", 1, 0)
ChunkB == StoredChunk(<<1, 3>>, Text("B", 80), "doc.pdf", 2, 0)
ChunkC == StoredChunk(<<1, 2>>, Text("C", 250), "doc.pdf", 1, 1)
ChunkD == StoredChunk(<<2, 1>>, Text("D", 200), "other.pdf", 1, 0)

\* the chunks of doc.pdf and of other.pdf
DocChunks == {ChunkA, ChunkB, ChunkC}
OtherChunks == {ChunkD}

\* the index contents a request may find: empty, one document, two documents
Collections == {{}, DocChunks, DocChunks \cup OtherChunks}

\* cosine distances the store may report for one query, per stored text
DistanceProfiles ==
    { ("A" :> 10 @@ "B" :> 85 @@ "C" :> 30 @@ "D" :> 79),
      ("A" :> 79 @@ "B" :> 10 @@ "C" :> 80 @@ "D" :> 30),
      ("A" :> 80 @@ "B" :> 85 @@ "C" :> 80 @@ "D" :> 200),
      ("A" :> 0 @@ "B" :> 30 @@ "C" :> 79 @@ "D" :> 10) }

\* VectorStore.get_collection_size
get_collection_size(coll) == Cardinality(coll)

\* variant of actual_n_results: the smaller of the two, also for no documents
smaller_n_results(n, total_docs) == Min(n, total_docs)

\* VectorStore.query: the result count asked of the underlying collection
actual_n_results(n, total_docs) ==
    IF total_docs > 0 THEN Min(n, total_docs) ELSE n

\* sequences of distinct elements of S of length at most n
RECURSIVE Rankings(_, _)
Rankings(S, n) ==
    IF n = 0 \/ S = {} THEN {<<>>}
    ELSE {<<>>} \cup
         UNION {{<<c>> \o r : r \in Rankings(S \ {c}, n - 1)} : c \in S}

\* collection.query of the underlying store: at most the requested number of
\* stored chunks, each at most once, in the store's result layout (one inner
\* list per query embedding); the 'distances' entry may be missing. The code
\* reads the results in the order given and relies on no ranking, so every
\* order is allowed; an empty collection answers with empty lists.
QueryResults(coll, n) ==
    LET m == Min(n, Cardinality(coll)) IN
    UNION {
        {[documents |-> << [i \in 1..Len(r) |-> r[i].text] >>,
          metadatas |-> << [i \in 1..Len(r) |-> r[i].metadata] >>,
          distances |-> d]
           : d \in {<< [i \in 1..Len(r) |-> p[r[i].text.id]] >> : p \in DistanceProfiles}
                   \cup {None}}
        : r \in Rankings(coll, m) }

NoResults == [documents |-> <<>>, metadatas |-> <<>>, distances |-> None]

----------------------------------------------------------------------------
(* RAGSystem.retrieve_relevant_chunks (src/backend/rag_system.py) *)

\* the similarity threshold 0.8, in hundredths
Threshold == 80

\* rag_system.py:109; a present distance d is <<d>>
DistanceOf(res, i) ==
    IF res.distances # None THEN <<res.distances[1][i]>> ELSE None

\* variant of KeepChunk: a distance equal to the threshold passes
KeepChunkInclusive(distance) == distance = None \/ distance[1] <= Threshold

\* rag_system.py:115
KeepChunk(distance) == distance = None \/ distance[1] < Threshold

\* rag_system.py:108-121, the loop over range(len(results['documents'][0]))
RECURSIVE FilterResults(_, _)
FilterResults(res, n) ==
    IF n = 0 THEN <<>>
    ELSE LET rest == FilterResults(res, n - 1)
             distance == DistanceOf(res, n)
         IN IF KeepChunk(distance)
            THEN Append(rest, [text |-> res.documents[1][n],
                               metadata |-> res.metadatas[1][n],
                               distance |-> distance])
            ELSE rest

\* variant of retrieve_relevant_chunks: no chunk is filtered out
retrieve_all_chunks(res) ==
    IF res.documents # <<>>
    THEN [i \in DOMAIN res.documents[1] |->
            [text |-> res.documents[1][i], metadata |-> res.metadatas[1][i],
             distance |-> DistanceOf(res, i)]]
    ELSE <<>>

\* rag_system.py:83-123, after the store's answer
retrieve_relevant_chunks(res) ==
    IF res.documents # <<>> /\ Len(res.documents[1]) > 0
    THEN FilterResults(res, Len(res.documents[1]))
    ELSE <<>>

----------------------------------------------------------------------------
(* RAGSystem.generate_answer: context assembly, rag_system.py:144-187 *)

\* rag_system.py:176, the snippet length
SnippetLen == 200

\* rag_system.py:149-152
SourceKey(chunk) == <<chunk.metadata.pdf_filename, chunk.metadata.page>>

\* variant of SourceIndex: a source is never found again
SourceIndexNotFound(sources, source_key) == 0

\* position of source_key among the sources seen so far, 0 when it is new
SourceIndex(sources, source_key) ==
    IF \E i \in DOMAIN sources : sources[i].key = source_key
    THEN CHOOSE i \in DOMAIN sources : sources[i].key = source_key
    ELSE 0

\* variant of NextSourceCounter: the counter is not advanced
SameSourceCounter(source_counter) == source_counter

\* rag_system.py:165: source_counter += 1
NextSourceCounter(source_counter) == source_counter + 1

\* rag_system.py:147-165: unique_sources in insertion order after the first n
\* chunks, with source_counter
RECURSIVE UniqueSources(_, _)
UniqueSources(chunks, n) ==
    IF n = 0 THEN [sources |-> <<>>, source_counter |-> 1]
    ELSE LET acc == UniqueSources(chunks, n - 1)
             chunk == chunks[n]
             source_key == SourceKey(chunk)
             i == SourceIndex(acc.sources, source_key)
         IN IF i # 0
            THEN [acc EXCEPT !.sources[i].chunks = Append(@, chunk.text)]
            ELSE [sources |-> Append(acc.sources,
                                     [key |-> source_key,
                                      source_num |-> acc.source_counter,
                                      chunks |-> <<chunk.text>>,
                                      pdf_filename |-> source_key[1],
                                      page |-> source_key[2]]),
                  source_counter |-> NextSourceCounter(acc.source_counter)]

\* the separator of rag_system.py:172
Space == Text(" ", 1)

\* rag_system.py:172: " ".join(chunks), the texts in order with one space
\* between neighbours
RECURSIVE JoinTexts(_)
JoinTexts(chunks) ==
    IF Len(chunks) = 0 THEN <<>>
    ELSE IF Len(chunks) = 1 THEN <<chunks[1]>>
    ELSE JoinTexts(SubSeq(chunks, 1, Len(chunks) - 1)) \o <<Space, chunks[Len(chunks)]>>

\* rag_system.py:176: text[:200] + "..." when the text is longer than 200
TextSnippet(text) ==
    IF text.len > SnippetLen
    THEN [id |-> text.id, len |-> SnippetLen, ellipsis |-> TRUE]
    ELSE [id |-> text.id, len |-> text.len, ellipsis |-> FALSE]

\* rag_system.py:173: one context line per unique source
ContextParts(sources) ==
    [i \in 1..Len(sources) |->
        [source_num |-> sources[i].source_num,
         page |-> sources[i].page,
         combined_text |-> JoinTexts(sources[i].chunks)]]

\* rag_system.py:168-182: one citation per unique source
Citations(sources) ==
    [i \in 1..Len(sources) |->
        [source |-> sources[i].source_num,
         pdf_filename |-> sources[i].pdf_filename,
         page |-> sources[i].page,
         text_snippet |-> TextSnippet(sources[i].chunks[1])]]

\* rag_system.py:250: type_instructions.get(question_type, type_instructions['Default'])
\* rag_system.py:208-247: the instruction block of each category, by its
\* first line
type_instructions ==
    ("Summary" :> "SPECIFIC INSTRUCTIONS FOR SUMMARY QUESTIONS:") @@
    ("Fact" :> "SPECIFIC INSTRUCTIONS FOR FACTUAL QUESTIONS:") @@
    ("Procedure" :> "SPECIFIC INSTRUCTIONS FOR PROCEDURE/STEP QUESTIONS:") @@
    ("Compare/Analyze" :> "SPECIFIC INSTRUCTIONS FOR COMPARISON/ANALYSIS QUESTIONS:") @@
    ("Default" :> "SPECIFIC INSTRUCTIONS:")

TypeInstructions == DOMAIN type_instructions

\* variant of SpecificInstruction: the Default block for every category
DefaultInstruction(qtype) == type_instructions["Default"]

SpecificInstruction(qtype) ==
    IF qtype \in TypeInstructions THEN type_instructions[qtype]
    ELSE type_instructions["Default"]

\* rag_system.py:252-261
BuildPrompt(q, qtype, sources) ==
    [specific_instruction |-> SpecificInstruction(qtype),
     context |-> ContextParts(sources),
     question |-> q,
     num_sources |-> Len(sources)]

NoPrompt == [specific_instruction |-> "", context |-> <<>>, question |-> <<>>,
             num_sources |-> 0]

----------------------------------------------------------------------------
(* RAGSystem.generate_answer: citation reconciliation, rag_system.py:283-326 *)

\* plain text of an answer
Plain(str) == [kind |-> "text", str |-> str, ws |-> 0, digits |-> <<>>]

\* "[" word whitespace digits "]": word is a spelling of "source", ws the
\* number of whitespace characters, digits the digit string
Marker(word, ws, digits) == [kind |-> "marker", str |-> word, ws |-> ws, digits |-> digits]

\* f"[Source {n}]", rag_system.py:315
FormatMarker(n) == Marker("Source", 1, IntToDigits(n))

\* source_pattern r'\[Source\s+(\d+)\]' under re.IGNORECASE, rag_system.py:286-287
MatchesPattern(tok) ==
    /\ tok.kind = "marker"
    /\ tok.str \in {"Source", "source", "SOURCE"}
    /\ tok.ws >= 1
    /\ Len(tok.digits) >= 1

\* re.findall: the captured digit strings, in order
FindAll(answer) ==
    LET hits == SelectSeq(answer, MatchesPattern)
    IN [i \in 1..Len(hits) |-> hits[i].digits]

\* variant of SourceExists: a cited number is not checked against the citations
AnySourceNumber(source_num, cits) == TRUE

\* rag_system.py:291
SourceExists(source_num, cits) == \E i \in DOMAIN cits : cits[i].source = source_num

\* rag_system.py:284-292
CitedSourceNumbers(answer, cits) ==
    LET matches == FindAll(answer)
    IN {n \in {DigitsToInt(matches[i]) : i \in DOMAIN matches} : SourceExists(n, cits)}

\* variant of FilterCitations: the citations are not filtered
KeepAllCitations(cits, cited) == cits

\* rag_system.py:298-301
FilterCitations(cits, cited) ==
    LET IsCited(c) == c.source \in cited IN SelectSeq(cits, IsCited)

\* list.sort(key=lambda x: x['source']), a stable sort: insert the last
\* element after the elements not greater than it
RECURSIVE SortBySource(_)
SortBySource(cits) ==
    IF Len(cits) <= 1 THEN cits
    ELSE LET last == cits[Len(cits)]
             front == SortBySource(SubSeq(cits, 1, Len(cits) - 1))
             k == Cardinality({i \in DOMAIN front : front[i].source <= last.source})
         IN SubSeq(front, 1, k) \o <<last>> \o SubSeq(front, k + 1, Len(front))

\* variant of NewNumber: enumerate without start=1
NewNumberFromZero(idx) == idx - 1

\* rag_system.py:306: enumerate(filtered_citations, start=1)
NewNumber(idx) == idx

\* rag_system.py:305-308: source_remap, a later entry overwriting an earlier one
SourceRemap(sorted) ==
    [old \in {sorted[i].source : i \in DOMAIN sorted} |->
        LET last == CHOOSE i \in DOMAIN sorted :
                        /\ sorted[i].source = old
                        /\ \A j \in DOMAIN sorted : sorted[j].source = old => j <= i
        IN NewNumber(last)]

\* rag_system.py:309: citation['source'] = idx
Renumber(sorted) == [i \in DOMAIN sorted |-> [sorted[i] EXCEPT !.source = NewNumber(i)]]

\* variant of InRemap: the lookup is not guarded
InRemapAlways(old_num, source_remap) == TRUE

\* rag_system.py:314
InRemap(old_num, source_remap) == old_num \in DOMAIN source_remap

\* rag_system.py:315: f"[Source {source_remap[old_num]}]", a KeyError when
\* old_num is no key of source_remap
KeyError == Plain("KeyError")
Lookup(source_remap, old_num) ==
    IF old_num \in DOMAIN source_remap THEN FormatMarker(source_remap[old_num]) ELSE KeyError

\* variant of replace_source: a marker that is not remapped is rewritten in
\* the canonical spelling
replace_source_normalising(tok, source_remap) ==
    LET old_num == DigitsToInt(tok.digits)
    IN IF old_num \in DOMAIN source_remap
       THEN FormatMarker(source_remap[old_num])
       ELSE FormatMarker(old_num)

\* rag_system.py:312-316
replace_source(tok, source_remap) ==
    LET old_num == DigitsToInt(tok.digits)
    IN IF InRemap(old_num, source_remap)
       THEN Lookup(source_remap, old_num)
       ELSE tok

\* variant of Sub: one pass per entry of source_remap, so that a marker
\* rewritten by one pass is matched again by the next
SubSuccessively(answer, source_remap) ==
    [i \in DOMAIN answer |->
        IF MatchesPattern(answer[i])
        THEN LET once == replace_source(answer[i], source_remap)
             IN IF MatchesPattern(once) THEN replace_source(once, source_remap) ELSE once
        ELSE answer[i]]

\* re.sub(source_pattern, replace_source, answer, flags=re.IGNORECASE)
Sub(answer, source_remap) ==
    [i \in DOMAIN answer |->
        IF MatchesPattern(answer[i]) THEN replace_source(answer[i], source_remap)
        ELSE answer[i]]

\* rag_system.py:283-326: what the reconciliation leaves in answer,
\* filtered_citations and, through the shared citation objects, citations
Reconcile(answer, cits) ==
    LET cited_source_numbers == CitedSourceNumbers(answer, cits)
    IN IF cited_source_numbers # {}
       THEN LET sorted == SortBySource(FilterCitations(cits, cited_source_numbers))
                source_remap == SourceRemap(sorted)
                new_answer == Sub(answer, source_remap)
            IN [raised |-> \E i \in DOMAIN new_answer :
                               MatchesPattern(answer[i]) /\ new_answer[i] = KeyError,
                answer |-> new_answer,
                filtered_citations |-> Renumber(sorted),
                citations |-> [i \in DOMAIN cits |->
                                 IF cits[i].source \in cited_source_numbers
                                 THEN [cits[i] EXCEPT !.source = source_remap[@]]
                                 ELSE cits[i]]]
       ELSE [raised |-> FALSE, answer |-> answer, filtered_citations |-> cits,
             citations |-> cits]

----------------------------------------------------------------------------
(* RAGSystem.classify_question_type, rag_system.py:328-367 *)
(* A question is the sequence of its characters.                            *)

UpperCase == <<"A", "B", "C", "D", "E", "F", "G", "H", "I", "J", "K", "L", "M", "N", "O", "P", "Q", "R", "S", "T", "U", "V", "W", "X", "Y", "Z">>
LowerCase == <<"a", "b", "c", "d", "e", "f", "g", "h", "i", "j", "k", "l", "m", "n", "o", "p", "q", "r", "s", "t", "u", "v", "w", "x", "y", "z">>

\* str.lower, one character
LowerChar(c) ==
    IF \E i \in DOMAIN UpperCase : UpperCase[i] = c
    THEN LowerCase[CHOOSE i \in DOMAIN UpperCase : UpperCase[i] = c]
    ELSE c

\* str.lower
Lower(str) == [i \in DOMAIN str |-> LowerChar(str[i])]

\* keyword in question_lower
Contains(str, keyword) ==
    \E i \in 0..(Len(str) - Len(keyword)) : SubSeq(str, i + 1, i + Len(keyword)) = keyword

\* len(question.split()): the number of maximal runs of non-whitespace
WordCount(str) ==
    Cardinality({i \in DOMAIN str : str[i] # " " /\ (i = 1 \/ str[i - 1] = " ")})

summary_keywords ==
    { <<"s", "u", "m", "m", "a", "r", "y">>,
      <<"s", "u", "m", "m", "a", "r", "i", "z", "e">>,
      <<"o", "v", "e", "r", "v", "i", "e", "w">>,
      <<"m", "a", "i", "n", " ", "p", "o", "i", "n", "t", "s">>,
      <<"k", "e", "y", " ", "f", "i", "n", "d", "i", "n", "g", "s">>,
      <<"c", "o", "n", "c", "l", "u", "s", "i", "o", "n">>,
      <<"w", "h", "a", "t", " ", "i", "s", " ", "t", "h", "e", " ", "g", "i", "s", "t">>,
      <<"b", "r", "i", "e", "f", "l", "y", " ", "e", "x", "p", "l", "a", "i", "n">> }

procedure_keywords ==
    { <<"s", "t", "e", "p">>,
      <<"s", "t", "e", "p", "s">>,
      <<"p", "r", "o", "c", "e", "s", "s">>,
      <<"p", "r", "o", "c", "e", "d", "u", "r", "e">>,
      <<"h", "o", "w", " ", "t", "o">>,
      <<"h", "o", "w", " ", "d", "o">>,
      <<"m", "e", "t", "h", "o", "d">>,
      <<"w", "a", "y">>,
      <<"l", "i", "s", "t">>,
      <<"s", "e", "q", "u", "e", "n", "c", "e">>,
      <<"o", "r", "d", "e", "r">>,
      <<"w", "o", "r", "k", "f", "l", "o", "w">> }

compare_keywords ==
    { <<"c", "o", "m", "p", "a", "r", "e">>,
      <<"d", "i", "f", "f", "e", "r", "e", "n", "c", "e">>,
      <<"d", "i", "f", "f", "e", "r", "e", "n", "t">>,
      <<"v", "e", "r", "s", "u", "s">>,
      <<"v", "s">>,
      <<"v", "s", ".">>,
      <<"s", "i", "m", "i", "l", "a", "r">>,
      <<"s", "i", "m", "i", "l", "a", "r", "i", "t", "y">>,
      <<"a", "n", "a", "l", "y", "z", "e">>,
      <<"a", "n", "a", "l", "y", "s", "i", "s">>,
      <<"c", "o", "n", "t", "r", "a", "s", "t">>,
      <<"r", "e", "l", "a", "t", "i", "o", "n", "s", "h", "i", "p">>,
      <<"b", "e", "t", "w", "e", "e", "n">> }

fact_keywords ==
    { <<"w", "h", "a", "t", " ", "i", "s">>,
      <<"w", "h", "a", "t", " ", "a", "r", "e">>,
      <<"w", "h", "o", " ", "i", "s">>,
      <<"w", "h", "e", "n">>,
      <<"w", "h", "e", "r", "e">>,
      <<"w", "h", "i", "c", "h">>,
      <<"d", "e", "f", "i", "n", "e">>,
      <<"d", "e", "f", "i", "n", "i", "t", "i", "o", "n">>,
      <<"m", "e", "a", "n", "i", "n", "g">> }

AnyKeyword(keywords, question_lower) == \E keyword \in keywords : Contains(question_lower, keyword)

\* variant of classify_question_type: the Procedure rule before the Summary rule
classify_procedure_first(q) ==
    LET question_lower == Lower(q) IN
    IF AnyKeyword(procedure_keywords, question_lower) THEN <<"Procedure", 40>>
    ELSE IF AnyKeyword(summary_keywords, question_lower) THEN <<"Summary", 40>>
    ELSE IF AnyKeyword(compare_keywords, question_lower) THEN <<"Compare/Analyze", 30>>
    ELSE IF AnyKeyword(fact_keywords, question_lower) /\ WordCount(q) < 10 THEN <<"Fact", 8>>
    ELSE <<"Default", 25>>

\* variant of classify_question_type: a question of ten words is still a Fact
classify_fact_upto_ten(q) ==
    LET question_lower == Lower(q) IN
    IF AnyKeyword(summary_keywords, question_lower) THEN <<"Summary", 40>>
    ELSE IF AnyKeyword(procedure_keywords, question_lower) THEN <<"Procedure", 40>>
    ELSE IF AnyKeyword(compare_keywords, question_lower) THEN <<"Compare/Analyze", 30>>
    ELSE IF AnyKeyword(fact_keywords, question_lower) /\ WordCount(q) <= 10 THEN <<"Fact", 8>>
    ELSE <<"Default", 25>>

classify_question_type(q) ==
    LET question_lower == Lower(q) IN
    IF AnyKeyword(summary_keywords, question_lower) THEN <<"Summary", 40>>
    ELSE IF AnyKeyword(procedure_keywords, question_lower) THEN <<"Procedure", 40>>
    ELSE IF AnyKeyword(compare_keywords, question_lower) THEN <<"Compare/Analyze", 30>>
    ELSE IF AnyKeyword(fact_keywords, question_lower) /\ WordCount(q) < 10 THEN <<"Fact", 8>>
    ELSE <<"Default", 25>>

\* the questions asked
Questions ==
    { <<"W", "h", "a", "t", " ", "i", "s", " ", "X", "?">>,
      <<"S", "u", "m", "m", "a", "r", "i", "z", "e", " ", "t", "h", "e", " ", "s", "t", "e", "p", "s">> }

----------------------------------------------------------------------------
(* Inputs of a request *)

\* the numbers a canonical marker of the answer may carry: 0 and every source
\* number a request can assemble from the stored chunks
MarkerNumbers == 0..Cardinality({SourceKey(c) : c \in DocChunks \cup OtherChunks})

\* pieces of an LLM answer: text, "[Source n]", "[source  02]", "[SOURCE 99]"
\* and the malformed "[Source1]"
Tokens ==
    {Plain("w")}
    \cup {FormatMarker(n) : n \in MarkerNumbers}
    \cup {Marker("source", 2, <<0, 2>>), Marker("SOURCE", 1, <<9, 9>>),
          Marker("Source", 0, <<1>>)}

Answers == UNION {[1..n -> Tokens] : n \in 0..MaxAnswerLen}

\* the n_results argument of ask_question: None or a count
ResultCounts == {None} \cup {<<n>> : n \in 1..MaxResults}

\* the failures the provider calls may raise: the exception of the client
\* library and the characters of its message, str(e). A rejected credential
\* raises AuthenticationError, "Error code: 401" or OpenRouter's "User not
\* found"; the service being down raises InternalServerError; a rate limit
\* raises RateLimitError, "Error code: 429 - ... try again in 2.401s"
ProviderErrors ==
    { [exception |-> "AuthenticationError", message |-> <<"4", "0", "1">>],
      [exception |-> "AuthenticationError",
       message |-> <<"U", "s", "e", "r", " ", "n", "o", "t", " ", "f", "o", "u", "n", "d">>],
      [exception |-> "InternalServerError", message |-> <<"5", "0", "3">>],
      [exception |-> "RateLimitError",
       message |-> <<"4", "2", "9", " ", "i", "n", " ", "2", ".", "4", "0", "1", "s">>] }

\* rag_system.py:138
NoInformationAnswer ==
    <<Plain("I couldn't find relevant information in the uploaded PDFs to answer your question.")>>

NoResult == [answer |-> <<>>, citations |-> <<>>]

----------------------------------------------------------------------------
(* The state machine *)

\* no response of a handler
NoResponse == [status |-> 0, detail |-> <<>>, total_documents |-> 0]

\* OPENAI_API_KEY or OPENROUTER_API_KEY of the environment, main.py:53-54
ApiKey == <<"sk-key">>

\* no request has reached a handler of main.py
NoRequests ==
    /\ upload_pc = "idle"
    /\ upload_file = ""
    /\ upload_chunks = <<>>
    /\ upload_response = NoResponse
    /\ status_response = NoResponse
    /\ clear_response = NoResponse
    /\ ask_response = NoResponse

\* VectorStore.__init__, vector_store.py:14-40: an empty collection is made
\* anew, whatever the directory held
StoreNew ==
    /\ next_uuid = 1
    /\ requested = 0
    /\ store_writable = TRUE

\* no page is being parsed
ParserIdle ==
    /\ page_text = <<>>
    /\ chunk_size = 0
    /\ packed_chunks = <<>>
    /\ final_chunks = <<>>
    /\ page_chunks = <<>>

Init ==
    /\ collection \in Collections
    /\ pc = "idle"
    /\ question = <<>>
    /\ n_results = 0
    /\ question_type = ""
    /\ results = NoResults
    /\ context_chunks = <<>>
    /\ citations = <<>>
    /\ prompt = NoPrompt
    /\ response = <<>>
    /\ result = NoResult
    /\ error = ""
    /\ error_message = <<>>
    /\ llm_calls = 0
    /\ ParserIdle
    /\ next_uuid = 3
    /\ requested = 0
    /\ store_writable = TRUE
    /\ NoRequests
    /\ api_key = ApiKey

\* RAGSystem.ask_question, rag_system.py:380-388, up to the embedding call of
\* retrieve_relevant_chunks (rag_system.py:95)
AskQuestion(q, n) ==
    /\ UNCHANGED outsideAsk
    /\ pc = "idle"
    /\ LET classified == classify_question_type(q) IN
        /\ question' = q
        /\ question_type' = classified[1]
        /\ n_results' = IF n = None THEN classified[2] ELSE n[1]
    /\ pc' = "embedding"
    /\ UNCHANGED <<collection, results, context_chunks, citations, prompt,
                   response, result, error, error_message, llm_calls>>

\* RAGSystem.get_embeddings returns; retrieve_relevant_chunks queries the store
\* (vector_store.py:93-109) and filters its results (rag_system.py:98-123)
EmbeddingReturns ==
    /\ UNCHANGED outsideAsk
    /\ pc = "embedding"
    /\ \E res \in QueryResults(collection,
                               actual_n_results(n_results, get_collection_size(collection))) :
        /\ results' = res
        /\ context_chunks' = retrieve_relevant_chunks(res)
    /\ pc' = "retrieved"
    /\ UNCHANGED <<collection, question, n_results, question_type, citations,
                   prompt, response, result, error, error_message, llm_calls>>

\* RAGSystem.get_embeddings raises, rag_system.py:77-81: neither it nor
\* ask_question catches the exception of the client library
EmbeddingFails(failure) ==
    /\ UNCHANGED outsideAsk
    /\ pc = "embedding"
    /\ pc' = "error"
    /\ error' = failure.exception
    /\ error_message' = failure.message
    /\ UNCHANGED <<collection, question, n_results, question_type, results,
                   context_chunks, citations, prompt, response, result, llm_calls>>

\* variant of NoContext: no short circuit
NeverNoContext(chunks) == FALSE

\* rag_system.py:136: not context_chunks
NoContext(chunks) == chunks = <<>>

\* RAGSystem.generate_answer, rag_system.py:136-273: the short circuit on an
\* empty chunk list, or the assembly, the prompt and the completion call.
\* n_results, a local of ask_question, is not read again and is dropped.
GenerateAnswer ==
    /\ UNCHANGED outsideAsk
    /\ pc = "retrieved"
    /\ n_results' = 0
    /\ \/ /\ NoContext(context_chunks)
          /\ result' = [answer |-> NoInformationAnswer, citations |-> <<>>]
          /\ pc' = "done"
          /\ UNCHANGED <<citations, prompt, llm_calls>>
       \/ /\ ~NoContext(context_chunks)
          /\ LET unique_sources == UniqueSources(context_chunks, Len(context_chunks)).sources IN
              /\ citations' = Citations(unique_sources)
              /\ prompt' = BuildPrompt(question, question_type, unique_sources)
          /\ llm_calls' = llm_calls + 1
          /\ pc' = "llm"
          /\ UNCHANGED result
    /\ UNCHANGED <<collection, question, question_type, results, context_chunks,
                   response, error, error_message>>

\* the completion returns answer; generate_answer reconciles and returns,
\* rag_system.py:281-326. results, a local of retrieve_relevant_chunks, is
\* not read again and is dropped.
LLMReturns(answer) ==
    /\ UNCHANGED outsideAsk
    /\ pc = "llm"
    /\ response' = answer
    /\ results' = NoResults
    /\ LET r == Reconcile(answer, citations) IN
        IF r.raised
        THEN /\ pc' = "error"
             /\ error' = "KeyError"
             /\ UNCHANGED error_message
             /\ UNCHANGED <<result, citations>>
        ELSE /\ pc' = "done"
             /\ result' = [answer |-> r.answer, citations |-> r.filtered_citations]
             /\ citations' = r.citations
             /\ UNCHANGED <<error, error_message>>
    /\ UNCHANGED <<collection, question, n_results, question_type, context_chunks,
                   prompt, llm_calls>>

\* rag_system.py:277: "401" in error_msg or "User not found" in error_msg
IsAuthFailure(msg) ==
    \/ Contains(msg, <<"4", "0", "1">>)
    \/ Contains(msg, <<"U", "s", "e", "r", " ", "n", "o", "t", " ", "f", "o", "u", "n", "d">>)

\* the completion raises, rag_system.py:274-279: an Exception is raised in
\* its place, its message a prefix chosen by IsAuthFailure and error_msg
LLMFails(failure) ==
    /\ UNCHANGED outsideAsk
    /\ pc = "llm"
    /\ pc' = "error"
    /\ error' = IF IsAuthFailure(failure.message)
                THEN "Authentication failed. Please check your API key. Error: "
                ELSE "Error calling LLM API: "
    /\ error_message' = failure.message
    /\ UNCHANGED <<collection, question, n_results, question_type, results,
                   context_chunks, citations, prompt, response, result, llm_calls>>

\* the request is over: its result or its exception went to the caller
Respond ==
    /\ UNCHANGED outsideAsk
    /\ pc \in {"done", "error"}
    /\ pc' = "idle"
    /\ question' = <<>>
    /\ n_results' = 0
    /\ question_type' = ""
    /\ results' = NoResults
    /\ context_chunks' = <<>>
    /\ citations' = <<>>
    /\ prompt' = NoPrompt
    /\ response' = <<>>
    /\ result' = NoResult
    /\ error' = ""
    /\ error_message' = <<>>
    /\ llm_calls' = 0
    /\ UNCHANGED collection

Next ==
    \/ \E q \in Questions, n \in ResultCounts : AskQuestion(q, n)
    \/ EmbeddingReturns
    \/ \E failure \in ProviderErrors : EmbeddingFails(failure)
    \/ GenerateAnswer
    \/ \E answer \in Answers : LLMReturns(answer)
    \/ \E failure \in ProviderErrors : LLMFails(failure)
    \/ Respond

Spec == Init /\ [][Next]_vars

----------------------------------------------------------------------------
(* Properties of retrieval and context assembly *)

\* the keys of the chunks handed to generate_answer
ContextKeys == {SourceKey(context_chunks[i]) : i \in DOMAIN context_chunks}

\* the texts of the chunks of one key, in encounter order
TextsOfKey(key) ==
    LET HasKey(chunk) == SourceKey(chunk) = key
        same == SelectSeq(context_chunks, HasKey)
    IN [i \in DOMAIN same |-> same[i].text]

\* str is the texts, in order, with exactly one space between neighbours
IsSpaceJoined(str, texts) ==
    /\ Len(texts) >= 1
    /\ Len(str) = 2 * Len(texts) - 1
    /\ \A i \in DOMAIN texts : str[2 * i - 1] = texts[i]
    /\ \A i \in 1..(Len(texts) - 1) : str[2 * i] = Space

\* the position at which a key is first seen
FirstSeen(key) ==
    CHOOSE i \in DOMAIN context_chunks :
        /\ SourceKey(context_chunks[i]) = key
        /\ \A j \in 1..(i - 1) : SourceKey(context_chunks[j]) # key

CitationKey(c) == <<c.pdf_filename, c.page>>

\* the positions of the store's results that pass the threshold
PassingResults ==
    IF results.documents = <<>> THEN {}
    ELSE {i \in DOMAIN results.documents[1] :
            results.distances = <<>> \/ results.distances[1][i] < 80}

\* C6: all chunks sharing one (pdf_filename, page) key produce exactly one
\* citation and exactly one context line, and that line's text is the
\* space-joined texts of those chunks in encounter order.
C6_OneSourcePerKey ==
    pc = "llm" =>
        /\ Len(citations) = Cardinality(ContextKeys)
        /\ Len(prompt.context) = Cardinality(ContextKeys)
        /\ \A key \in ContextKeys :
            /\ Cardinality({i \in DOMAIN citations : CitationKey(citations[i]) = key}) = 1
            /\ LET c == CHOOSE c \in Range(citations) : CitationKey(c) = key
                   lines == {i \in DOMAIN prompt.context :
                                prompt.context[i].source_num = c.source}
               IN /\ Cardinality(lines) = 1
                  /\ \A i \in lines :
                        /\ prompt.context[i].page = key[2]
                        /\ IsSpaceJoined(prompt.context[i].combined_text, TextsOfKey(key))

\* two chunks of one page, with different texts, were merged into one source
C6_Witness ==
    /\ pc = "llm"
    /\ \E i, j \in DOMAIN context_chunks :
        /\ i < j
        /\ SourceKey(context_chunks[i]) = SourceKey(context_chunks[j])
        /\ context_chunks[i].text # context_chunks[j].text
    /\ \E i \in DOMAIN prompt.context : Len(prompt.context[i].combined_text) = 3

\* C7: source numbers are assigned in first-seen order of the keys starting
\* at 1: the assembled citations carry exactly 1..source_count, without gap
\* or duplicate, and source_count, the number of distinct keys, is the upper
\* bound the prompt names.
C7_DenseSourceNumbers ==
    pc = "llm" =>
        /\ Len(citations) = Cardinality(ContextKeys)
        /\ \A i \in DOMAIN citations : citations[i].source = i
        /\ \A i \in DOMAIN citations : CitationKey(citations[i]) \in ContextKeys
        /\ \A i, j \in DOMAIN citations :
            citations[i].source < citations[j].source
                => FirstSeen(CitationKey(citations[i])) < FirstSeen(CitationKey(citations[j]))
        /\ prompt.num_sources = Cardinality(ContextKeys)

\* three chunks of two sources, the first source seen again after the second
C7_Witness ==
    /\ pc = "llm"
    /\ Len(context_chunks) = 3
    /\ SourceKey(context_chunks[1]) = SourceKey(context_chunks[3])
    /\ SourceKey(context_chunks[1]) # SourceKey(context_chunks[2])
    /\ Len(citations) = 2
    /\ CitationKey(citations[2]) = SourceKey(context_chunks[2])
    /\ prompt.num_sources = 2

\* C8: the threshold filter keeps a retrieved chunk exactly when its distance
\* is absent or strictly less than 0.8 (80 hundredths), in the store's order.
C8_ThresholdFilter ==
    pc = "retrieved" =>
        /\ Len(context_chunks) = Cardinality(PassingResults)
        /\ \A i \in PassingResults :
            LET j == Cardinality({k \in PassingResults : k <= i})
            IN /\ context_chunks[j].text = results.documents[1][i]
               /\ context_chunks[j].metadata = results.metadatas[1][i]
        /\ \A j \in DOMAIN context_chunks :
            context_chunks[j].distance = <<>> \/ context_chunks[j].distance[1] <= 79

\* a chunk at 0.79 was kept and a chunk at 0.8 was dropped
C8_Witness ==
    /\ pc = "retrieved"
    /\ results.distances # <<>>
    /\ \E i, j \in DOMAIN results.documents[1] :
        /\ results.distances[1][i] = 79
        /\ results.distances[1][j] = 80
        /\ \E k \in DOMAIN context_chunks : context_chunks[k].text = results.documents[1][i]
        /\ \A k \in DOMAIN context_chunks : context_chunks[k].text # results.documents[1][j]

\* every text of a combined context text
TextsIn(str) == {str[i] : i \in DOMAIN str} \ {Space}

\* C9: the threshold is applied before deduplication and numbering: a chunk
\* the threshold excludes appears neither in the context text nor in the
\* citations, creates no source and consumes no source number.
C9_FilterBeforeAssembly ==
    pc = "llm" =>
        LET passing == {results.documents[1][i] : i \in PassingResults}
            passingKeys == {<<results.metadatas[1][i].pdf_filename,
                              results.metadatas[1][i].page>> : i \in PassingResults}
        IN /\ \A i \in DOMAIN prompt.context :
                TextsIn(prompt.context[i].combined_text) \subseteq passing
           /\ \A i \in DOMAIN citations :
                /\ CitationKey(citations[i]) \in passingKeys
                /\ \E t \in passing : citations[i].text_snippet.id = t.id
           /\ Len(citations) = Cardinality(passingKeys)
           /\ {citations[i].source : i \in DOMAIN citations} = 1..Cardinality(passingKeys)

\* distances [0.1, 0.85, 0.3] for A (page 1), B (page 2), C (page 1): one
\* source, merging A and C
C9_Witness ==
    /\ pc = "llm"
    /\ results.documents = << <<ChunkA.text, ChunkB.text, ChunkC.text>> >>
    /\ results.distances = << <<10, 85, 30>> >>
    /\ Len(citations) = 1
    /\ prompt.context[1].combined_text = <<ChunkA.text, Space, ChunkC.text>>

\* C10: when the filtered chunk list is empty the request ends with the
\* fixed answer and no citation, and no completion call is made in it.
C10_EmptyContextShortCircuit ==
    /\ (pc \in {"retrieved", "done"} /\ context_chunks = <<>>) => llm_calls = 0
    /\ (pc = "done" /\ context_chunks = <<>>) =>
            result = [answer |-> NoInformationAnswer, citations |-> <<>>]
    /\ pc = "llm" => context_chunks # <<>>
    /\ llm_calls > 0 => context_chunks # <<>>

\* every retrieved chunk was at distance >= 0.8
C10_Witness ==
    /\ pc = "done"
    /\ results.documents # <<>>
    /\ Len(results.documents[1]) = 3
    /\ context_chunks = <<>>
    /\ result.citations = <<>>

\* the index was empty
C10_WitnessEmptyIndex ==
    /\ pc = "done"
    /\ collection = {}
    /\ result.answer = NoInformationAnswer

----------------------------------------------------------------------------
(* Properties of citation reconciliation *)

\* the citations as assembled, before reconciliation
Assembled == Citations(UniqueSources(context_chunks, Len(context_chunks)).sources)

AssembledSources == {Assembled[i].source : i \in DOMAIN Assembled}

AssembledCitation(n) == CHOOSE c \in Range(Assembled) : c.source = n

\* the number a marker carries
MarkerNumber(tok) == DigitsToInt(tok.digits)

\* the positions of the markers of the LLM's answer
MarkerPositions == {i \in DOMAIN response : MatchesPattern(response[i])}

\* the numbers of assembled citations that the LLM's answer cites
ValidCited == {MarkerNumber(response[i]) : i \in MarkerPositions} \cap AssembledSources

\* the request went through the LLM and generate_answer returned
Answered == pc = "done" /\ llm_calls > 0

\* the position of n among the cited numbers in increasing order
Rank(n) == Cardinality({m \in ValidCited : m <= n})

\* C1: when the answer has at least one valid marker, the returned citations
\* are exactly the cited ones, renumbered by the order-preserving bijection
\* from the kept original numbers onto 1..k; uncited sources are absent.
C1_RenumberBijection ==
    (Answered /\ ValidCited # {}) =>
        /\ Len(result.citations) = Cardinality(ValidCited)
        /\ {result.citations[i].source : i \in DOMAIN result.citations}
              = 1..Cardinality(ValidCited)
        /\ \A n \in ValidCited :
              result.citations[Rank(n)] = [AssembledCitation(n) EXCEPT !.source = Rank(n)]
        /\ \A n \in AssembledSources \ ValidCited :
              \A i \in DOMAIN result.citations :
                  CitationKey(result.citations[i]) # CitationKey(AssembledCitation(n))

\* of three sources the answer cites 3 and then 1: source 2 is dropped and
\* source 3 becomes 2
C1_Witness ==
    /\ Answered
    /\ Len(Assembled) = 3
    /\ response = <<FormatMarker(3), FormatMarker(1)>>
    /\ Len(result.citations) = 2
    /\ CitationKey(result.citations[2]) = CitationKey(AssembledCitation(3))
    /\ result.answer = <<FormatMarker(2), FormatMarker(1)>>

\* C2: in the rewritten answer, all markers of one kept source carry the same
\* new number, and markers of different original numbers, rewritten or left
\* verbatim, never carry the same number.
C2_ConsistentMarkers ==
    Answered =>
        /\ Len(result.answer) = Len(response)
        /\ \A i \in MarkerPositions : MatchesPattern(result.answer[i])
        /\ \A i, j \in MarkerPositions :
            /\ (MarkerNumber(response[i]) = MarkerNumber(response[j])
                    /\ MarkerNumber(response[i]) \in ValidCited)
                 => MarkerNumber(result.answer[i]) = MarkerNumber(result.answer[j])
            /\ MarkerNumber(response[i]) # MarkerNumber(response[j])
                 => MarkerNumber(result.answer[i]) # MarkerNumber(result.answer[j])

\* a kept source 2 is renumbered to 1 next to an unrecognized marker
C2_Witness ==
    /\ Answered
    /\ ValidCited = {2}
    /\ \E i, j \in MarkerPositions :
        /\ MarkerNumber(response[i]) = 2
        /\ MarkerNumber(result.answer[i]) = 1
        /\ MarkerNumber(response[j]) \notin AssembledSources
        /\ result.answer[j] = response[j]

\* C3: when the answer has no valid citation number, all assembled citations
\* are returned with their original numbers and the answer is unmodified.
C3_FallbackReturnsAll ==
    (Answered /\ ValidCited = {}) =>
        /\ result.citations = Assembled
        /\ result.answer = response

\* the answer has a marker, but of no assembled citation
C3_Witness ==
    /\ Answered
    /\ ValidCited = {}
    /\ MarkerPositions # {}
    /\ Len(result.citations) >= 2
    /\ result.answer = response

\* the positions of the markers whose number matches no assembled citation
UnrecognizedPositions ==
    {i \in MarkerPositions : MarkerNumber(response[i]) \notin AssembledSources}

\* C4: a marker whose number matches no assembled citation adds no citation
\* to the kept ones and causes no error, and where other markers trigger the
\* renumbering it stays in the answer exactly as written.
C4_UnrecognizedUntouched ==
    /\ (pc = "error" /\ UnrecognizedPositions # {}) => error # "KeyError"
    /\ Answered =>
        /\ \A i \in UnrecognizedPositions : result.answer[i] = response[i]
        /\ ValidCited # {} =>
              \A i \in DOMAIN result.citations :
                  \E n \in ValidCited :
                      CitationKey(result.citations[i]) = CitationKey(AssembledCitation(n))

\* "[SOURCE 99]" stays as written while another marker is renumbered
C4_Witness ==
    /\ Answered
    /\ \E i \in UnrecognizedPositions : response[i] = Marker("SOURCE", 1, <<9, 9>>)
    /\ \E j \in MarkerPositions : result.answer[j] # response[j]

\* C5: reconciliation never raises: whatever the answer text, generate_answer
\* returns an answer and a non-empty citation list.
C5_ReconcileNeverRaises ==
    /\ error # "KeyError"
    /\ pc = "error" => llm_calls = 0 \/ response = <<>>
    /\ Answered =>
        /\ Len(result.answer) = Len(response)
        /\ result.citations # <<>>
        /\ ValidCited = {} => Len(result.citations) = Len(Assembled)

\* an answer of a malformed marker and a marker numbered 0
C5_Witness ==
    /\ Answered
    /\ response = <<Marker("Source", 0, <<1>>), FormatMarker(0)>>
    /\ result.citations # <<>>

----------------------------------------------------------------------------
(* The question classifier on its own: RAGSystem.classify_question_type
   applied to questions put together from phrases *)

\* the most phrases in one question
MaxPhrases == 3

\* the phrases questions are made of: keywords of each rule, in mixed case,
\* and fillers of one, three and four words
Phrases ==
    { <<"S", "u", "m", "m", "a", "r", "i", "z", "e">>,
      <<"t", "h", "e", " ", "s", "t", "e", "p", "s">>,
      <<"C", "O", "M", "P", "A", "R", "E">>,
      <<"W", "h", "a", "t", " ", "i", "s">>,
      <<"a", " ", "b", " ", "c", " ", "d">>,
      <<"e", " ", "f", " ", "g">>,
      <<"X", "?">> }

\* " ".join(phrases)
RECURSIVE JoinPhrases(_)
JoinPhrases(phrases) ==
    IF Len(phrases) = 1 THEN phrases[1]
    ELSE phrases[1] \o <<" ">> \o JoinPhrases(Tail(phrases))

ClassifierQuestions ==
    UNION { {JoinPhrases(phrases) : phrases \in [1..n -> Phrases]} : n \in 1..MaxPhrases }

InitClassify ==
    /\ collection = {}
    /\ pc = "idle"
    /\ question \in ClassifierQuestions
    /\ n_results = 0
    /\ question_type = ""
    /\ results = NoResults
    /\ context_chunks = <<>>
    /\ citations = <<>>
    /\ prompt = NoPrompt
    /\ response = <<>>
    /\ result = NoResult
    /\ error = ""
    /\ error_message = <<>>
    /\ llm_calls = 0
    /\ ParserIdle
    /\ StoreNew
    /\ NoRequests
    /\ api_key = ApiKey

\* question_type, n_results = self.classify_question_type(question),
\* rag_system.py:380-384
Classify ==
    /\ UNCHANGED handlerVars
    /\ pc = "idle"
    /\ LET classified == classify_question_type(question) IN
        /\ question_type' = classified[1]
        /\ n_results' = classified[2]
    /\ pc' = "classified"
    /\ UNCHANGED <<collection, question, results, context_chunks, citations, prompt,
                   response, result, error, error_message, llm_calls, chunkerVars, storeVars>>

NextClassify == Classify

SpecClassify == InitClassify /\ [][NextClassify]_vars

\* the rules in their order of priority: keywords, category, result count
ClassifierRules ==
    << [keywords |-> summary_keywords, category |-> "Summary", count |-> 40],
       [keywords |-> procedure_keywords, category |-> "Procedure", count |-> 40],
       [keywords |-> compare_keywords, category |-> "Compare/Analyze", count |-> 30],
       [keywords |-> fact_keywords, category |-> "Fact", count |-> 8] >>

\* the words of a question whose words are separated by single spaces
Words(q) == 1 + Cardinality({i \in DOMAIN q : q[i] = " "})

\* rule i matches the question: one of its keywords occurs in the lower-cased
\* question, and for the Fact rule the question has fewer than ten words
RuleMatches(i, q) ==
    /\ \E keyword \in ClassifierRules[i].keywords : Contains(Lower(q), keyword)
    /\ ClassifierRules[i].category = "Fact" => Words(q) < 10

SummarizeTheSteps == <<"S", "u", "m", "m", "a", "r", "i", "z", "e", " ", "t", "h", "e", " ", "s", "t", "e", "p", "s">>

\* C11: the classifier returns the category and the count of the first rule,
\* in the order Summary (40), Procedure (40), Compare/Analyze (30), Fact (8),
\* that matches the question regardless of case, and Default (25) when none
\* does; "Summarize the steps", which has a Summary and a Procedure keyword,
\* is Summary
C11_FirstMatchingRule ==
    pc = "classified" =>
        LET matching == {i \in DOMAIN ClassifierRules : RuleMatches(i, question)} IN
        /\ matching = {} => question_type = "Default" /\ n_results = 25
        /\ matching # {} =>
              LET first == CHOOSE i \in matching : \A j \in matching : i <= j IN
              /\ question_type = ClassifierRules[first].category
              /\ n_results = ClassifierRules[first].count
        /\ question = SummarizeTheSteps => question_type = "Summary" /\ n_results = 40

\* "Summarize the steps" was classified: it has the Summary keyword
\* "summarize" and the Procedure keyword "steps"
C11_Witness ==
    /\ pc = "classified"
    /\ question = SummarizeTheSteps
    /\ RuleMatches(1, question) /\ RuleMatches(2, question)
    /\ question_type = "Summary"
    /\ n_results = 40

\* the question has a keyword of Summary, Procedure or Compare/Analyze
HigherRuleMatches(q) == \E i \in 1..3 : RuleMatches(i, q)

HasFactKeyword(q) == \E keyword \in fact_keywords : Contains(Lower(q), keyword)

\* C12: a question with no Summary, Procedure or Compare/Analyze keyword is
\* Fact (8) exactly when it has a Fact keyword and fewer than ten words, and
\* Default (25) otherwise
C12_FactNeedsShortQuestion ==
    pc = "classified" /\ ~HigherRuleMatches(question) =>
        IF HasFactKeyword(question) /\ Words(question) < 10
        THEN question_type = "Fact" /\ n_results = 8
        ELSE question_type = "Default" /\ n_results = 25

\* a question of exactly ten words with the Fact keyword "what is" was
\* classified Default
C12_Witness ==
    /\ pc = "classified"
    /\ ~HigherRuleMatches(question)
    /\ HasFactKeyword(question)
    /\ Words(question) = 10
    /\ question_type = "Default"
    /\ n_results = 25

\* a question of nine words with a Fact keyword was classified Fact
C12_WitnessNineWords ==
    /\ pc = "classified"
    /\ ~HigherRuleMatches(question)
    /\ HasFactKeyword(question)
    /\ Words(question) = 9
    /\ question_type = "Fact"
    /\ n_results = 8

----------------------------------------------------------------------------
(* The chunker: PDFParser._split_text_into_chunks and the loop of
   PDFParser.parse_pdf that keeps its chunks, on texts over a small alphabet *)

\* the longest page text
MaxTextLen == 6

\* the largest chunk_size
MaxChunkSize == 4

\* the characters of a page: a letter, the two characters of the sentence
\* separator, and the newline
Alphabet == {"a", ".", " ", "\n"}

Texts == UNION { [1..n -> Alphabet] : n \in 0..MaxTextLen }

ChunkSizes == 1..MaxChunkSize

\* pdf_parser.py:75: text.replace('\n', ' ')
Flatten(text) == [i \in DOMAIN text |-> IF text[i] = "\n" THEN " " ELSE text[i]]

\* pdf_parser.py:75: '. '
Separator == <<".", " ">>

\* pdf_parser.py:75: str.split('. '), the occurrences taken from the left
RECURSIVE SplitSentences(_)
SplitSentences(text) ==
    LET hits == {i \in 1..(Len(text) - 1) : SubSeq(text, i, i + 1) = Separator} IN
    IF hits = {} THEN <<text>>
    ELSE LET i == CHOOSE h \in hits : \A g \in hits : h <= g IN
         <<SubSeq(text, 1, i - 1)>> \o SplitSentences(SubSeq(text, i + 2, Len(text)))

\* variant of AppendSentence: the separator is not put back
AppendSentenceOnly(current_chunk, sentence) == current_chunk \o sentence

\* pdf_parser.py:82,84: current_chunk + sentence + '. '
AppendSentence(current_chunk, sentence) == current_chunk \o sentence \o Separator

\* pdf_parser.py:77-87: the packing loop and the flush of the last chunk
RECURSIVE Pack(_, _, _, _)
Pack(sentences, chunks, current_chunk, size) ==
    IF sentences = <<>>
    THEN IF current_chunk # <<>> THEN Append(chunks, current_chunk) ELSE chunks
    ELSE LET sentence == Head(sentences) IN
         IF Len(current_chunk) + Len(sentence) > size /\ current_chunk # <<>>
         THEN Pack(Tail(sentences), Append(chunks, current_chunk),
                   AppendSentence(<<>>, sentence), size)
         ELSE Pack(Tail(sentences), chunks, AppendSentence(current_chunk, sentence), size)

\* pdf_parser.py:72-87: chunks when the sentence loop is over
PackedChunks(text, size) == Pack(SplitSentences(Flatten(text)), <<>>, <<>>, size)

\* variant of HardSplit: a chunk is never cut
NoHardSplit(chunk, size) == <<chunk>>

\* pdf_parser.py:92-97: a chunk, or its slices chunk[i:i + chunk_size]
HardSplit(chunk, size) ==
    IF Len(chunk) <= size THEN <<chunk>>
    ELSE [k \in 1..((Len(chunk) + size - 1) \div size) |->
            SubSeq(chunk, (k - 1) * size + 1, Min(k * size, Len(chunk)))]

\* pdf_parser.py:90-97: final_chunks
RECURSIVE FinalChunks(_, _)
FinalChunks(chunks, size) ==
    IF chunks = <<>> THEN <<>>
    ELSE HardSplit(Head(chunks), size) \o FinalChunks(Tail(chunks), size)

\* variant of split_text_into_chunks: a short text takes the sentence path too
split_text_always(text, size) == FinalChunks(PackedChunks(text, size), size)

\* PDFParser._split_text_into_chunks, pdf_parser.py:56-99
split_text_into_chunks(text, size) ==
    IF Len(text) <= size THEN <<text>>
    ELSE FinalChunks(PackedChunks(text, size), size)

Whitespace == {" ", "\n"}

\* str.strip()
Strip(text) ==
    LET solid == {i \in DOMAIN text : text[i] \notin Whitespace} IN
    IF solid = {} THEN <<>>
    ELSE SubSeq(text, CHOOSE i \in solid : \A j \in solid : i <= j,
                      CHOOSE i \in solid : \A j \in solid : i >= j)

\* variant of KeepPageChunk: every chunk is kept
KeepEveryPageChunk(chunk_text) == TRUE

\* pdf_parser.py:43: if chunk_text.strip()
KeepPageChunk(chunk_text) == Strip(chunk_text) # <<>>

\* pdf_parser.py:42-49: the chunks parse_pdf appends for one page
RECURSIVE PageChunks(_, _)
PageChunks(split, chunk_idx) ==
    IF split = <<>> THEN <<>>
    ELSE (IF KeepPageChunk(Head(split))
          THEN << [text |-> Strip(Head(split)), chunk_index |-> chunk_idx] >>
          ELSE <<>>)
         \o PageChunks(Tail(split), chunk_idx + 1)

\* no question is being answered
AskIdle ==
    /\ pc = "idle"
    /\ question = <<>>
    /\ n_results = 0
    /\ question_type = ""
    /\ results = NoResults
    /\ context_chunks = <<>>
    /\ citations = <<>>
    /\ prompt = NoPrompt
    /\ response = <<>>
    /\ result = NoResult
    /\ error = ""
    /\ error_message = <<>>
    /\ llm_calls = 0

InitChunker ==
    /\ collection = {}
    /\ StoreNew
    /\ AskIdle
    /\ page_text \in Texts
    /\ chunk_size \in ChunkSizes
    /\ packed_chunks = <<>>
    /\ final_chunks = <<>>
    /\ page_chunks = <<>>
    /\ NoRequests
    /\ api_key = ApiKey

\* page_chunks = self._split_text_into_chunks(text, chunk_size),
\* pdf_parser.py:40
SplitTextIntoChunks ==
    /\ UNCHANGED handlerVars
    /\ pc = "idle"
    /\ packed_chunks' = IF Len(page_text) <= chunk_size THEN <<>>
                        ELSE PackedChunks(page_text, chunk_size)
    /\ final_chunks' = split_text_into_chunks(page_text, chunk_size)
    /\ pc' = "split"
    /\ UNCHANGED <<collection, question, n_results, question_type, results,
                   context_chunks, citations, prompt, response, result, error, error_message,
                   llm_calls, page_text, chunk_size, page_chunks, storeVars>>

\* the loop over the chunks of the page, pdf_parser.py:42-49
KeepPageChunks ==
    /\ UNCHANGED handlerVars
    /\ pc = "split"
    /\ page_chunks' = PageChunks(final_chunks, 0)
    /\ pc' = "parsed"
    /\ UNCHANGED <<collection, question, n_results, question_type, results,
                   context_chunks, citations, prompt, response, result, error, error_message,
                   llm_calls, page_text, chunk_size, packed_chunks, final_chunks,
                   storeVars>>

NextChunker ==
    \/ SplitTextIntoChunks
    \/ KeepPageChunks

SpecChunker == InitChunker /\ [][NextChunker]_vars

\* the chunker has returned
Chunked == pc \in {"split", "parsed"}

\* "".join(chunks)
RECURSIVE Concat(_)
Concat(chunks) == IF chunks = <<>> THEN <<>> ELSE Head(chunks) \o Concat(Tail(chunks))

\* C13: a text no longer than chunk_size comes back as the one chunk, the
\* text itself with its newlines and separators as they were
C13_ShortTextOneChunk ==
    Chunked /\ Len(page_text) <= chunk_size => final_chunks = <<page_text>>

\* a text no longer than chunk_size with a newline and a sentence separator
\* came back as its one chunk
C13_Witness ==
    /\ Chunked
    /\ Len(page_text) <= chunk_size
    /\ \E i \in DOMAIN page_text : page_text[i] = "\n"
    /\ \E i \in 1..(Len(page_text) - 1) : SubSeq(page_text, i, i + 1) = Separator
    /\ final_chunks = <<page_text>>

\* C14 as stated: for the text of length zero the chunker returns no chunk
C14_EmptyTextNoChunk ==
    Chunked /\ page_text = <<>> => final_chunks = <<>>

\* C14 amended: for the text of length zero the chunker returns one chunk,
\* the empty text, and parse_pdf keeps no chunk of it
C14_EmptyTextOneEmptyChunk ==
    /\ Chunked /\ page_text = <<>> => final_chunks = << <<>> >>
    /\ pc = "parsed" /\ page_text = <<>> => page_chunks = <<>>

\* the empty text was split into its one empty chunk and parse_pdf kept nothing
C14_Witness ==
    /\ pc = "parsed"
    /\ page_text = <<>>
    /\ final_chunks = << <<>> >>
    /\ page_chunks = <<>>

\* C15: the chunks put end to end are the text: the text itself when it is
\* no longer than chunk_size, and otherwise the text with its newlines turned
\* into spaces followed by one ". ", the separator that closes the last
\* chunk; no character is dropped and no other is added
C15_Coverage ==
    Chunked =>
        IF Len(page_text) <= chunk_size
        THEN Concat(final_chunks) = page_text
        ELSE Concat(final_chunks) = Flatten(page_text) \o Separator

\* a text with a newline and a separator was split into three or more
\* chunks, one packed chunk was cut, and the chunks put end to end are the
\* flattened text and the closing separator
C15_Witness ==
    /\ Chunked
    /\ Len(page_text) > chunk_size
    /\ \E i \in DOMAIN page_text : page_text[i] = "\n"
    /\ Len(SplitSentences(Flatten(page_text))) >= 2
    /\ Len(final_chunks) >= 3
    /\ Len(final_chunks) > Len(packed_chunks)
    /\ Concat(final_chunks) = Flatten(page_text) \o Separator

\* the slices of a chunk at the offsets 0, size, 2 * size, ...
Slices(chunk, size) ==
    LET offsets == {o \in 0..(Len(chunk) - 1) : o % size = 0} IN
    {SubSeq(chunk, o + 1, Min(o + size, Len(chunk))) : o \in offsets}

\* C16: no chunk is longer than chunk_size (chunk_size >= 1): a packed chunk
\* no longer than chunk_size is returned whole, and a longer one as its
\* slices at the offsets that are multiples of chunk_size
C16_ChunksBounded ==
    Chunked =>
        /\ \A i \in DOMAIN final_chunks : Len(final_chunks[i]) <= chunk_size
        /\ Len(page_text) > chunk_size =>
              /\ Concat(final_chunks) = Concat(packed_chunks)
              /\ \A i \in DOMAIN packed_chunks :
                    Slices(packed_chunks[i], chunk_size) \subseteq Range(final_chunks)

\* a packed chunk was longer than chunk_size and was returned in slices
C16_Witness ==
    /\ Chunked
    /\ \E i \in DOMAIN packed_chunks :
          /\ Len(packed_chunks[i]) > 2 * chunk_size
          /\ Len(packed_chunks[i]) % chunk_size # 0
    /\ \A i \in DOMAIN final_chunks : Len(final_chunks[i]) <= chunk_size

----------------------------------------------------------------------------
(* The vector store called directly: VectorStore.add_documents, query,
   delete_collection and get_collection_size *)

\* the most add_documents calls that store chunks
MaxAdds == 2

\* a chunk as parse_pdf returns it, pdf_parser.py:44-49
ParsedChunk(text, page, chunk_index) ==
    [text |-> text, page |-> page, chunk_index |-> chunk_index]

\* what parse_pdf returns for doc.pdf and for other.pdf
DocParsed ==
    << ParsedChunk(Text("A", 120), 1, 0),
       ParsedChunk(Text("C", 250), 1, 1),
       ParsedChunk(Text("B", 80), 2, 0) >>
OtherParsed == << ParsedChunk(Text("D", 200), 1, 0) >>

\* the chunk lists handed to add_documents: the first page of doc.pdf
ChunkLists == { SubSeq(DocParsed, 1, 2) }

\* one embedding vector per text, rag_system.py:77-81
EmbeddingsOf(n) == [i \in 1..n |-> "vector"]

\* the embeddings handed to add_documents: none, or one vector too few, as
\* many as there are chunks, or one too many
EmbeddingInputs(chunks) ==
    {None} \cup { <<EmbeddingsOf(n)>> : n \in (Len(chunks) - 1)..(Len(chunks) + 1) }

\* vector_store.py:70
EmbeddingsRequired == "Embeddings are required. Please provide embeddings when adding documents."

\* what the underlying collection raises for lists of unequal lengths
UnequalLengths == "Number of embeddings must match number of ids"

\* what the underlying collection raises when its database cannot be written
ReadonlyDatabase == "attempt to write a readonly database"

\* variant of collection_add: the entries are stored before the call fails
collection_add_then_raise(coll, writable, documents, metadatas, ids, embeddings) ==
    [raised |-> ~writable \/ Len(embeddings) # Len(ids),
     error |-> IF ~writable THEN ReadonlyDatabase ELSE UnequalLengths,
     collection |-> coll \cup { [id |-> ids[i], text |-> documents[i],
                                 metadata |-> metadatas[i]] : i \in DOMAIN ids }]

\* collection.add of the underlying store, called at vector_store.py:72-77:
\* one call for the whole list; it stores every entry, or raises and stores
\* none when the database cannot be written or the lists differ in length
collection_add(coll, writable, documents, metadatas, ids, embeddings) ==
    IF ~writable
    THEN [raised |-> TRUE, error |-> ReadonlyDatabase, collection |-> coll]
    ELSE IF Len(embeddings) # Len(ids)
    THEN [raised |-> TRUE, error |-> UnequalLengths, collection |-> coll]
    ELSE [raised |-> FALSE, error |-> "",
          collection |-> coll \cup { [id |-> ids[i], text |-> documents[i],
                                      metadata |-> metadatas[i]] : i \in DOMAIN ids }]

\* variant of add_documents: the chunks are added one call at a time and the
\* call returns after the first
add_first_document(coll, writable, chunks, pdf_filename, embeddings, uuid) ==
    [raised |-> FALSE, error |-> "",
     collection |-> coll \cup { [id |-> <<uuid, 1>>, text |-> chunks[1].text,
                                 metadata |-> [pdf_filename |-> pdf_filename,
                                               page |-> chunks[1].page,
                                               chunk_index |-> chunks[1].chunk_index]] }]

\* VectorStore.add_documents, vector_store.py:42-77; uuid stands for the
\* uuid4 values of the call, ids no other call makes
add_documents(coll, writable, chunks, pdf_filename, embeddings, uuid) ==
    LET texts == [i \in DOMAIN chunks |-> chunks[i].text]
        metadatas == [i \in DOMAIN chunks |->
                         [pdf_filename |-> pdf_filename, page |-> chunks[i].page,
                          chunk_index |-> chunks[i].chunk_index]]
        ids == [i \in DOMAIN chunks |-> <<uuid, i>>]
    IN  IF embeddings = None
        THEN [raised |-> TRUE, error |-> EmbeddingsRequired, collection |-> coll]
        ELSE collection_add(coll, writable, texts, metadatas, ids, embeddings[1])

\* what collection.query raises for a result count below one
InvalidResultCount == "Number of requested results cannot be negative, or zero"

InitStore ==
    /\ collection = {}
    /\ StoreNew
    /\ AskIdle
    /\ ParserIdle
    /\ NoRequests
    /\ api_key = ApiKey

\* a call of VectorStore.add_documents
AddDocuments(chunks, pdf_filename, embeddings) ==
    /\ UNCHANGED handlerVars
    /\ pc = "idle"
    /\ next_uuid <= MaxAdds
    /\ LET r == add_documents(collection, store_writable, chunks, pdf_filename,
                              embeddings, next_uuid) IN
        IF r.raised
        THEN /\ pc' = "error"
             /\ error' = r.error
             /\ UNCHANGED error_message
             /\ UNCHANGED <<collection, next_uuid>>
        ELSE /\ pc' = "done"
             /\ collection' = r.collection
             /\ next_uuid' = next_uuid + 1
             /\ UNCHANGED <<error, error_message>>
    /\ UNCHANGED <<question, n_results, question_type, results, context_chunks,
                   citations, prompt, response, result, llm_calls, chunkerVars,
                   requested, store_writable>>

\* a call of VectorStore.query for n results, vector_store.py:79-109
QueryStore(n) ==
    /\ UNCHANGED handlerVars
    /\ pc = "idle"
    /\ n_results' = n
    /\ LET total_docs == get_collection_size(collection)
           actual == actual_n_results(n, total_docs)
       IN  /\ requested' = actual
           /\ IF actual < 1
              THEN /\ pc' = "error"
                   /\ error' = InvalidResultCount
                   /\ UNCHANGED error_message
                   /\ UNCHANGED results
              ELSE /\ pc' = "done"
                   /\ results' \in QueryResults(collection, actual)
                   /\ UNCHANGED <<error, error_message>>
    /\ UNCHANGED <<collection, question, question_type, context_chunks, citations,
                   prompt, response, result, llm_calls, chunkerVars, next_uuid,
                   store_writable>>

\* VectorStore.delete_collection, vector_store.py:111-117: the collection is
\* deleted and made anew, empty
delete_collection(coll) == {}

\* a call of VectorStore.delete_collection
DeleteCollection ==
    /\ UNCHANGED handlerVars
    /\ pc = "idle"
    /\ collection # {}
    /\ collection' = delete_collection(collection)
    /\ pc' = "done"
    /\ UNCHANGED <<question, n_results, question_type, results, context_chunks,
                   citations, prompt, response, result, error, error_message, llm_calls,
                   chunkerVars, storeVars>>

\* the call is over
StoreReturns ==
    /\ UNCHANGED handlerVars
    /\ pc \in {"done", "error"}
    /\ pc' = "idle"
    /\ n_results' = 0
    /\ requested' = 0
    /\ results' = NoResults
    /\ error' = ""
    /\ error_message' = <<>>
    /\ UNCHANGED <<collection, question, question_type, context_chunks, citations,
                   prompt, response, result, llm_calls, chunkerVars, next_uuid,
                   store_writable>>

NextStore ==
    \/ \E chunks \in ChunkLists : \E embeddings \in EmbeddingInputs(chunks) :
          AddDocuments(chunks, "doc.pdf", embeddings)
    \/ \E n \in 1..MaxResults : QueryStore(n)
    \/ DeleteCollection
    \/ StoreReturns

SpecStore == InitStore /\ [][NextStore]_vars

\* C17 as stated: a call of add_documents without embeddings, or with a
\* number of embeddings that is not the number of chunks, fails with the
\* missing-embeddings error and leaves the collection as it was
C17_MissingOrMismatchedEmbeddings ==
    [][\A chunks \in ChunkLists : \A embeddings \in EmbeddingInputs(chunks) :
          (/\ AddDocuments(chunks, "doc.pdf", embeddings)
           /\ (embeddings = None \/ Len(embeddings[1]) # Len(chunks)))
          => (/\ pc' = "error"
              /\ error' = EmbeddingsRequired
              /\ collection' = collection)]_vars

\* a query has returned
Queried == pc = "done" /\ requested # 0

\* the results of the query
ResultCount == Len(results.documents[1])

\* C18 as stated: a query for n results on c stored chunks asks the
\* underlying collection for min(n, c) results, raises nothing, and returns
\* at most min(n, c) results
C18_RequestsMinOfBoth ==
    /\ pc = "error" => error # InvalidResultCount
    /\ Queried =>
          /\ requested = Min(n_results, get_collection_size(collection))
          /\ ResultCount <= Min(n_results, get_collection_size(collection))

\* C18 amended: a query for n results on c stored chunks asks the underlying
\* collection for min(n, c) results when c > 0 and for n results when the
\* collection is empty; it raises nothing and returns at most min(n, c)
\* results, none when the collection is empty
C18_ClampedUnlessEmpty ==
    /\ pc = "error" => error # InvalidResultCount
    /\ Queried =>
          LET c == get_collection_size(collection) IN
          /\ c > 0 => requested = Min(n_results, c)
          /\ c = 0 => requested = n_results
          /\ ResultCount <= Min(n_results, c)

\* a query of the empty collection asked for its n results and returned none
C18_Witness ==
    /\ Queried
    /\ collection = {}
    /\ n_results >= 1
    /\ requested = n_results
    /\ ResultCount = 0

\* a query for more results than there are chunks asked for as many as there
\* are chunks
C18_WitnessClamped ==
    /\ Queried
    /\ collection # {}
    /\ n_results > get_collection_size(collection)
    /\ requested = get_collection_size(collection)
    /\ ResultCount = requested

----------------------------------------------------------------------------
(* The handlers of main.py on the shared vector store: upload_pdf,
   ask_question, get_status and clear_documents. Each is a coroutine whose
   body never awaits, run by the one event loop of uvicorn.run
   (main.py:303-307): a handler that has begun runs to its response before
   another begins. upload_pdf waits inside rag.get_embeddings for the
   embedding provider; nothing in the code bounds that wait. *)

\* the files uploaded
UploadFiles == {"doc.pdf", "other.pdf", "scan.pdf", "broken.pdf", "notes.txt"}

\* main.py:103: file.filename.endswith('.pdf')
EndsWithPdf(filename) == filename \in {"doc.pdf", "other.pdf", "scan.pdf", "broken.pdf"}

\* pdf_parser.py:53-54
ErrorParsingPdf == "Error parsing PDF"

\* PDFParser.parse_pdf, pdf_parser.py:16-54, on the files uploaded: the
\* chunks of doc.pdf and of other.pdf, no chunk for scan.pdf, which has no
\* text, and an exception for broken.pdf, which cannot be read
parse_pdf(filename) ==
    CASE filename = "doc.pdf" -> [raised |-> FALSE, error |-> "", chunks |-> DocParsed]
      [] filename = "other.pdf" -> [raised |-> FALSE, error |-> "", chunks |-> OtherParsed]
      [] filename = "scan.pdf" -> [raised |-> FALSE, error |-> "", chunks |-> <<>>]
      [] OTHER -> [raised |-> TRUE, error |-> ErrorParsingPdf, chunks |-> <<>>]

\* the responses of the handlers; detail is the pieces of the detail string
Success(total) == [status |-> 200, detail |-> <<>>, total_documents |-> total]
HttpError(status, detail) == [status |-> status, detail |-> detail, total_documents |-> 0]

\* main.py:115
CouldNotExtractText == "Could not extract text from PDF"

\* main.py:70-73
ApiKeyNotFound == "API key not found. Please set OPENAI_API_KEY in .env file."

\* str(e) of an HTTPException, main.py:134: "<status_code>: <detail>", or the
\* empty string with the releases of the framework whose HTTPException has
\* no __str__ and passes nothing to Exception
StrOfHTTPException(status_code, detail) == { <<>>, <<status_code, ": ", detail>> }

\* get_rag_system, main.py:46-75: the RAGSystem of the key found, or an
\* HTTPException when the environment has no key
get_rag_system(key) ==
    IF key = None
    THEN [raised |-> TRUE, str |-> StrOfHTTPException("500", ApiKeyNotFound)]
    ELSE [raised |-> FALSE, str |-> {}]

\* the keys the environment may hold
ApiKeys == {None, ApiKey}

InitIngest ==
    /\ collection = {}
    /\ StoreNew
    /\ AskIdle
    /\ ParserIdle
    /\ NoRequests
    /\ api_key \in ApiKeys

\* what upload_pdf, get_status and clear_documents never write
outsideHandlers ==
    <<pc, question, n_results, question_type, results, context_chunks, citations,
      prompt, response, result, error, error_message, llm_calls, chunkerVars,
      requested, ask_response, api_key>>

\* the event loop is not inside a handler
LoopFree == upload_pc # "embedding"

\* upload_pdf, main.py:92-120, up to the embedding call: the file name is
\* tested, the file saved and parsed, the RAGSystem fetched. The
\* HTTPException for a file without text, and the one of get_rag_system, are
\* raised inside the try block and caught by its except clause, main.py:133-134.
UploadPdf(filename) ==
    /\ upload_pc = "idle"
    /\ next_uuid <= MaxAdds
    /\ upload_file' = filename
    /\ IF ~EndsWithPdf(filename)
       THEN /\ upload_response' = HttpError(400, <<"Only PDF files are allowed">>)
            /\ upload_pc' = "done"
            /\ UNCHANGED upload_chunks
       ELSE LET parsed == parse_pdf(filename)
                rag == get_rag_system(api_key)
            IN
            IF parsed.raised
            THEN /\ upload_response' = HttpError(500, <<"Error processing PDF: ", parsed.error>>)
                 /\ upload_pc' = "done"
                 /\ UNCHANGED upload_chunks
            ELSE IF parsed.chunks = <<>>
            THEN /\ upload_response' \in
                        { HttpError(500, <<"Error processing PDF: ">> \o str) :
                              str \in StrOfHTTPException("400", CouldNotExtractText) }
                 /\ upload_pc' = "done"
                 /\ UNCHANGED upload_chunks
            ELSE IF rag.raised
            THEN /\ upload_response' \in
                        { HttpError(500, <<"Error processing PDF: ">> \o str) : str \in rag.str }
                 /\ upload_pc' = "done"
                 /\ UNCHANGED upload_chunks
            ELSE /\ upload_chunks' = parsed.chunks
                 /\ upload_pc' = "embedding"
                 /\ UNCHANGED upload_response
    /\ UNCHANGED <<collection, next_uuid, store_writable, status_response,
                   clear_response, outsideHandlers>>

\* rag.get_embeddings returns one vector per chunk; upload_pdf stores the
\* chunks and answers, main.py:122-134. The collection is what add_documents
\* leaves, whether it raised or not.
UploadEmbeddingsReturn ==
    /\ upload_pc = "embedding"
    /\ LET embeddings == EmbeddingsOf(Len(upload_chunks))
           r == add_documents(collection, store_writable, upload_chunks, upload_file,
                              <<embeddings>>, next_uuid)
       IN  /\ collection' = r.collection
           /\ IF r.raised
              THEN /\ upload_response' = HttpError(500, <<"Error processing PDF: ", r.error>>)
                   /\ UNCHANGED next_uuid
              ELSE /\ next_uuid' = next_uuid + 1
                   /\ upload_response' = Success(get_collection_size(r.collection))
    /\ upload_pc' = "done"
    /\ UNCHANGED <<upload_file, upload_chunks, store_writable, status_response,
                   clear_response, outsideHandlers>>

\* rag.get_embeddings raises, main.py:133-134
UploadEmbeddingsFail(failure) ==
    /\ upload_pc = "embedding"
    /\ upload_response' = HttpError(500, <<"Error processing PDF: ">> \o failure.message)
    /\ upload_pc' = "done"
    /\ UNCHANGED <<collection, next_uuid, upload_file, upload_chunks, store_writable,
                   status_response, clear_response, outsideHandlers>>

\* the response of upload_pdf went to the client
UploadResponds ==
    /\ upload_pc = "done"
    /\ upload_pc' = "idle"
    /\ upload_file' = ""
    /\ upload_chunks' = <<>>
    /\ upload_response' = NoResponse
    /\ UNCHANGED <<collection, next_uuid, store_writable, status_response,
                   clear_response, outsideHandlers>>

\* get_status, main.py:204-226
GetStatus ==
    /\ LoopFree
    /\ LET rag == get_rag_system(api_key) IN
       IF rag.raised
       THEN status_response' \in
                { HttpError(500, <<"Error getting status: ">> \o str) : str \in rag.str }
       ELSE status_response' = Success(get_collection_size(collection))
    /\ UNCHANGED <<collection, next_uuid, store_writable, upload_pc, upload_file,
                   upload_chunks, upload_response, clear_response, outsideHandlers>>

\* what becomes of the open client when main.py:242-249 removes the files
\* and directories of its database under it: it goes on as before, or it can
\* no longer write
WipeOutcomes == {"writable", "readonly"}

\* clear_documents, main.py:230-262: the collection is deleted and made
\* anew, the uploaded files and every file of the database directory are
\* removed, and the collection is fetched again. Deleting the collection is
\* itself a write to the database.
ClearDocuments(outcome) ==
    /\ LoopFree
    /\ IF ~store_writable
       THEN /\ clear_response' = HttpError(500, <<"Error clearing documents: ", ReadonlyDatabase>>)
            /\ UNCHANGED <<collection, store_writable>>
       ELSE /\ collection' = delete_collection(collection)
            /\ store_writable' = (outcome = "writable")
            /\ clear_response' = Success(0)
    /\ UNCHANGED <<next_uuid, upload_pc, upload_file, upload_chunks, upload_response,
                   status_response, outsideHandlers>>

\* the questions posted to /api/ask: none, and one of Questions
PostedQuestions == {<<>>} \cup {q \in Questions : Len(q) <= 10}

\* what Python raises for the call of main.py:191, which passes the keyword
\* argument model_name: RAGSystem.ask_question, rag_system.py:369, has the
\* parameters question and n_results only, and its body never runs
UnexpectedKeywordArgument ==
    "RAGSystem.ask_question() got an unexpected keyword argument 'model_name'"

\* the handler ask_question, main.py:137-201
AskRequest(q) ==
    /\ LoopFree
    /\ LET rag == get_rag_system(api_key) IN
       IF q = <<>>
       THEN ask_response' = HttpError(400, <<"Question is required">>)
       ELSE IF rag.raised
       THEN ask_response' \in
                { HttpError(500, <<"Error generating answer: ">> \o str) : str \in rag.str }
       ELSE ask_response' =
                HttpError(500, <<"Error generating answer: ", UnexpectedKeywordArgument>>)
    /\ UNCHANGED <<collection, pc, question, n_results, question_type, results,
                   context_chunks, citations, prompt, response, result, error,
                   error_message, llm_calls, chunkerVars, storeVars, upload_pc,
                   upload_file, upload_chunks, upload_response, status_response,
                   clear_response, api_key>>

NextIngest ==
    \/ \E filename \in UploadFiles : UploadPdf(filename)
    \/ UploadEmbeddingsReturn
    \/ \E failure \in ProviderErrors : UploadEmbeddingsFail(failure)
    \/ UploadResponds
    \/ GetStatus
    \/ \E outcome \in WipeOutcomes : ClearDocuments(outcome)
    \/ \E q \in PostedQuestions : AskRequest(q)

SpecIngest == InitIngest /\ [][NextIngest]_vars

\* the chunks of parse_pdf(filename) with their embeddings are stored by an
\* add_documents call made in this state
AddSucceeds(coll, writable, filename) ==
    LET chunks == parse_pdf(filename).chunks IN
    ~add_documents(coll, writable, chunks, filename,
                   <<EmbeddingsOf(Len(chunks))>>, next_uuid).raised

\* C19 as stated: when clear_documents has answered, the collection holds no
\* chunk, an add_documents call and a query made next succeed, and no chunk
\* stored before comes back: the chunks a step adds have ids made after it
C19_ClearLeavesIndexReady ==
    [][/\ (\E outcome \in WipeOutcomes : ClearDocuments(outcome))
          /\ clear_response'.status = 200
          => /\ get_collection_size(collection') = 0
             /\ \A n \in 1..MaxResults : actual_n_results(n, 0) >= 1
             /\ AddSucceeds(collection', store_writable', "doc.pdf")
       /\ \A c \in collection' \ collection : c.id[1] >= next_uuid]_vars

\* the chunks stored by the add_documents call number uuid
Batch(uuid) == {c \in collection : c.id[1] = uuid}

\* C20: in every state a reader may see, the chunks of an ingestion are all
\* in the collection or none of them is: with a stored chunk are stored all
\* the chunks parsed from its file, under the ids of the same add_documents
\* call; while an upload waits for its embeddings none of its chunks is stored
C20_IngestAtomic ==
    /\ \A c \in collection :
          LET parsed == parse_pdf(c.metadata.pdf_filename).chunks IN
          \A i \in DOMAIN parsed :
              \E d \in Batch(c.id[1]) : d.id[2] = i /\ d.text = parsed[i].text
    /\ upload_pc = "embedding" => Batch(next_uuid) = {}

\* doc.pdf was uploaded next to other.pdf after get_status answered with the
\* count before it: its three chunks are stored and the upload answers 4
C20_Witness ==
    /\ upload_pc = "done"
    /\ upload_file = "doc.pdf"
    /\ upload_response = Success(4)
    /\ status_response = Success(1)
    /\ Cardinality(Batch(next_uuid - 1)) = 3
    /\ get_collection_size(collection) = 4

\* C23 as stated: the upload of a PDF whose parse gives no chunk ends, without
\* an embedding call and without a change of the collection, in the error
\* main.py:115 raises for it: status 400, 'Could not extract text from PDF'
C23_EmptyExtractionOutcome ==
    [][\A filename \in UploadFiles :
          (/\ UploadPdf(filename)
           /\ EndsWithPdf(filename)
           /\ ~parse_pdf(filename).raised
           /\ parse_pdf(filename).chunks = <<>>)
          => /\ upload_pc' = "done"
             /\ collection' = collection
             /\ upload_response' = HttpError(400, <<CouldNotExtractText>>)]_vars

\* a step of upload_pdf
UploadStep ==
    \/ \E filename \in UploadFiles : UploadPdf(filename)
    \/ UploadEmbeddingsReturn
    \/ \E failure \in ProviderErrors : UploadEmbeddingsFail(failure)

\* C27: an upload that ends in an error leaves the collection, and so its
\* count, as it was before the request; the steps of upload_pdf up to the
\* embedding call write nothing; chunks come into the collection only by the
\* step that ends an upload with success, and they are the chunks of the one
\* add_documents call of that upload
C27_FailedIngestLeavesIndex ==
    [][/\ (UploadStep /\ upload_pc' = "done" /\ upload_response'.status # 200)
          => /\ collection' = collection
             /\ get_collection_size(collection') = get_collection_size(collection)
       /\ (UploadStep /\ upload_pc' = "embedding") => collection' = collection
       /\ collection' \ collection # {}
          => /\ UploadEmbeddingsReturn
             /\ upload_pc' = "done"
             /\ upload_response'.status = 200
             /\ collection' \ collection = {c \in collection' : c.id[1] = next_uuid}
             /\ next_uuid' = next_uuid + 1]_vars

\* the upload of doc.pdf failed at the embedding call with other.pdf stored:
\* the collection still holds the one chunk of other.pdf
C27_Witness ==
    /\ upload_pc = "done"
    /\ upload_file = "doc.pdf"
    /\ upload_response = HttpError(500, <<"Error processing PDF: ", "5", "0", "3">>)
    /\ get_collection_size(collection) = 1
    /\ \A c \in collection : c.metadata.pdf_filename = "other.pdf"

\* an upload failed at the lookup of the API key
C27_WitnessNoKey ==
    /\ upload_pc = "done"
    /\ upload_file = "doc.pdf"
    /\ api_key = None
    /\ upload_response = HttpError(500, <<"Error processing PDF: ", "500", ": ", ApiKeyNotFound>>)
    /\ collection = {}

\* a handler other than upload_pdf answers a request
ServeOther ==
    \/ GetStatus
    \/ \E outcome \in WipeOutcomes : ClearDocuments(outcome)
    \/ \E q \in PostedQuestions : AskRequest(q)

\* C21 as stated, in its part about the other requests: while an external
\* call has not returned, the service can answer a request to another handler
C21_OthersServedWhileCallPending == upload_pc = "embedding" => ENABLED ServeOther

\* the sentences packed into a chunk: the chunk without its closing separator,
\* split again
SentencesIn(chunk) == SplitSentences(SubSeq(chunk, 1, Len(chunk) - Len(Separator)))

\* C24 as stated: a sentence joins a non-empty buffer only if the buffer with
\* it is no longer than chunk_size, so that a packed chunk of two or more
\* sentences is no longer than chunk_size and a longer packed chunk is one
\* sentence
C24_LongPackedChunkOneSentence ==
    Chunked =>
        \A i \in DOMAIN packed_chunks :
            Len(packed_chunks[i]) > chunk_size => Len(SentencesIn(packed_chunks[i])) = 1

\* the citations returned whose source is the number m
ReturnedCitations(m) ==
    {j \in DOMAIN result.citations : result.citations[j].source = m}

\* C26: every marker of the LLM's answer that cites an assembled source n
\* carries, in the returned answer, the number of exactly one returned
\* citation, and that citation has the pdf_filename, page and text_snippet of
\* the assembled citation n; the number is the one source_remap gives to n,
\* never the one it gives to that number in turn
C26_ReferenceIntegrity ==
    Answered =>
        LET assembled == Assembled
            cited == ValidCited
        IN \A i \in MarkerPositions :
            MarkerNumber(response[i]) \in cited =>
                LET n == MarkerNumber(response[i])
                    m == MarkerNumber(result.answer[i])
                    original == CHOOSE c \in Range(assembled) : c.source = n
                IN /\ MatchesPattern(result.answer[i])
                   /\ m = Cardinality({k \in cited : k <= n})
                   /\ Cardinality(ReturnedCitations(m)) = 1
                   /\ \A j \in ReturnedCitations(m) :
                         /\ result.citations[j].pdf_filename = original.pdf_filename
                         /\ result.citations[j].page = original.page
                         /\ result.citations[j].text_snippet = original.text_snippet

\* the answer cites 2 and 3 of three sources: 2 becomes 1 and 3 becomes 2, a
\* number that is itself a key of source_remap, and the citation numbered 2
\* is the one assembled as 3
C26_Witness ==
    /\ Answered
    /\ Len(Assembled) = 3
    /\ response = <<FormatMarker(2), FormatMarker(3)>>
    /\ result.answer = <<FormatMarker(1), FormatMarker(2)>>
    /\ \E j \in ReturnedCitations(2) :
          /\ CitationKey(result.citations[j]) = CitationKey(AssembledCitation(3))
          /\ CitationKey(result.citations[j]) # CitationKey(AssembledCitation(2))

\* what a caller sees of a rejected credential: the exception of the client
\* library, which get_embeddings lets through, or the message
\* generate_answer raises in its place
AuthenticationErrors ==
    {"AuthenticationError", "Authentication failed. Please check your API key. Error: "}

\* C22 as stated: a failure of the embedding call or of the completion call
\* ends the request with an error that carries the provider's message, and
\* that error is an authentication error exactly when the provider rejected
\* the credential
C22_AuthenticationDistinguished ==
    [][\A failure \in ProviderErrors :
          (EmbeddingFails(failure) \/ LLMFails(failure)) =>
              /\ pc' = "error"
              /\ error_message' = failure.message
              /\ (failure.exception = "AuthenticationError")
                    <=> (error' \in AuthenticationErrors)]_vars

----------------------------------------------------------------------------
(* The prompt builder on its own: RAGSystem.generate_answer called with a
   question, its chunks and a category, the classifier's or any other *)

\* categories that are not keys of type_instructions: another case, a part of
\* a key, the empty string, and a name of no category
OtherTypes == {"summary", "Compare", "", "Quiz"}

\* the questions a prompt is built for: one phrase, or two
PromptQuestions ==
    {JoinPhrases(<<p>>) : p \in Phrases} \cup {JoinPhrases(<<p, q>>) : p, q \in Phrases}

\* the chunks handed to generate_answer: none, or the one chunk of other.pdf
PromptContexts ==
    { <<>>,
      << [text |-> ChunkD.text, metadata |-> ChunkD.metadata, distance |-> <<10>>] >> }

InitPrompt ==
    /\ collection = {}
    /\ pc = "retrieved"
    /\ question \in PromptQuestions
    /\ n_results = 0
    /\ question_type \in {classify_question_type(question)[1]} \cup OtherTypes
    /\ results = NoResults
    /\ context_chunks \in PromptContexts
    /\ citations = <<>>
    /\ prompt = NoPrompt
    /\ response = <<>>
    /\ result = NoResult
    /\ error = ""
    /\ error_message = <<>>
    /\ llm_calls = 0
    /\ ParserIdle
    /\ StoreNew
    /\ NoRequests
    /\ api_key = ApiKey

NextPrompt == GenerateAnswer

SpecPrompt == InitPrompt /\ [][NextPrompt]_vars

\* C25: the prompt holds the block that type_instructions has under exactly
\* the category given, and the Default block for every category that is not
\* one of its five keys; every category of the classifier has a block of its
\* own, and no category makes the prompt fail
C25_InstructionByExactCategory ==
    /\ pc # "error"
    /\ pc = "llm" =>
          /\ question_type \in {"Summary", "Fact", "Procedure", "Compare/Analyze", "Default"}
                => prompt.specific_instruction = type_instructions[question_type]
          /\ question_type \notin {"Summary", "Fact", "Procedure", "Compare/Analyze", "Default"}
                => prompt.specific_instruction = "SPECIFIC INSTRUCTIONS:"
          /\ question_type = classify_question_type(question)[1]
                => /\ question_type \in DOMAIN type_instructions
                   /\ \A other \in DOMAIN type_instructions \ {question_type} :
                         prompt.specific_instruction # type_instructions[other]

\* a prompt was built for the category "summary", which is no key, and holds
\* the Default block
C25_Witness ==
    /\ pc = "llm"
    /\ question_type = "summary"
    /\ prompt.specific_instruction = type_instructions["Default"]
    /\ prompt.num_sources = 1

\* a prompt was built for a Compare/Analyze question and holds its block
C25_WitnessOwnBlock ==
    /\ pc = "llm"
    /\ question_type = "Compare/Analyze"
    /\ question_type = classify_question_type(question)[1]
    /\ prompt.specific_instruction = "SPECIFIC INSTRUCTIONS FOR COMPARISON/ANALYSIS QUESTIONS:"

====
